---- MODULE Spec2Model ----
(***************************************************************************)
(* A model of crawler.py: the request signer (api_signature), the status   *)
(* fetcher (get_user_status), the aggregator (parse_data) and the entry    *)
(* point that runs the fetcher and then the aggregator.                    *)
(*                                                                         *)
(* Strings the code builds, slices, sorts or inspects character by         *)
(* character (keys, values, the hash string, the URL) are sequences of     *)
(* one-character strings.  Strings the code only compares for equality or  *)
(* uses as dictionary keys (verdicts, problem names, tags, the comment)    *)
(* are atomic.  A Python dict with optional keys is a record whose DOMAIN  *)
(* has or lacks the field, so "rating" in x["problem"] is                  *)
(* "rating" \in DOMAIN x.problem.                                          *)
(***************************************************************************)
EXTENDS Integers, Sequences, FiniteSets, TLC

VARIABLES
    pc,               \* the statement the process is at
    submission_list,  \* line 154: the value get_user_status returned
    exc,              \* the uncaught exception that ended the process, if any
    stdout,           \* what print() wrote, one entry per call
    gets,             \* every requests.get issued: its url and timeout
    response,         \* what the remote end answered to the GET
    files,            \* the three artifacts in the working directory
    method,           \* api_signature's argument
    params,           \* api_signature's argument, a dict in insertion order
    rand,             \* api_signature's random prefix
    hash_string,      \* api_signature's local, as passed to sha512hex
    api_sig           \* api_signature's return value

vars == <<pc, submission_list, exc, stdout, gets, response, files,
          method, params, rand, hash_string, api_sig>>

----------------------------------------------------------------------------
(* Bounds of the model *)

\* longest submission list a response carries
MaxLen == 3

\* most parameters in a mapping handed to api_signature on its own
MaxParams == 2

----------------------------------------------------------------------------
(* Characters and strings *)

\* the printable ASCII characters in code point order, from 32 (space); the
\* double quote (34), the backslash (92) and the backtick (96) are spelled
\* out, no string here holds them
Ascii == <<" ","!","QUOTE","#","$","%","&","'","(",")","*","+",",","-",".","/",
           "0","1","2","3","4","5","6","7","8","9",":",";","<","=",">","?",
           "@","A","B","C","D","E","F","G","H","I","J","K","L","M","N","O",
           "P","Q","R","S","T","U","V","W","X","Y","Z","[","BACKSLASH","]","^","_",
           "BACKTICK","a","b","c","d","e","f","g","h","i","j","k","l","m","n","o",
           "p","q","r","s","t","u","v","w","x","y","z","{","|","}","~">>

\* Python's ord() on a printable ASCII character
ord(c) == 31 + (CHOOSE i \in 1..Len(Ascii) : Ascii[i] = c)

\* Python's a < b on str: lexicographic by code point, a proper prefix first
StrLess(a, b) ==
    \E i \in 1..(Len(a) + 1) :
        /\ i <= Len(b)
        /\ \A j \in 1..(i - 1) : a[j] = b[j]
        /\ \/ i = Len(a) + 1
           \/ i <= Len(a) /\ ord(a[i]) < ord(b[i])

Digits == <<"0","1","2","3","4","5","6","7","8","9">>

RECURSIVE NatToStr(_)
NatToStr(n) ==
    IF n < 10 THEN <<Digits[n + 1]>>
    ELSE NatToStr(n \div 10) \o <<Digits[(n % 10) + 1]>>

\* Python's str() on an int
IntToStr(n) == IF n < 0 THEN <<"-">> \o NatToStr(0 - n) ELSE NatToStr(n)

\* A value of a parameter mapping is an int or a str
IntVal(n) == [int |-> n]
StrVal(s) == [str |-> s]

\* the f-string replacement field {value}: format(value, "")
Format(value) ==
    IF "int" \in DOMAIN value THEN IntToStr(value.int) ELSE value.str

----------------------------------------------------------------------------
(* Configuration *)

BASE_URL == <<"h","t","t","p","s",":","/","/","c","o","d","e","f","o","r",
              "c","e","s",".","c","o","m","/","a","p","i","/">>

\* sensitive_info.KEY and sensitive_info.SECRET: values supplied at run time
KEY == <<"k","3","y">>
SECRET == <<"s","3","c","r","3","t">>

----------------------------------------------------------------------------
(* Signer *)

\* random.choice over letters and digits, six times: two of the 62^6 draws
RandPrefixes == { <<"a","B","3","x","Y","9">>, <<"Z","q","0","L","m","7">> }

\* hashlib.sha512(hash_string.encode()): the hash object over the string
sha512hex(hash_string_) == [sha512 |-> hash_string_]

\* .hexdigest(): SHA-512 is taken as injective, so the digest is written as
\* the hashed string inside "sha512(" ... ")"
hexdigest(h) == <<"s","h","a","5","1","2","(">> \o h.sha512 \o <<")">>

\* one item inserted into a list of items kept in ascending key order
RECURSIVE SortedInsert(_, _)
SortedInsert(items, item) ==
    IF items = <<>> THEN <<item>>
    ELSE IF StrLess(item.key, Head(items).key) THEN <<item>> \o items
    ELSE IF item.key = Head(items).key THEN <<item>> \o Tail(items)
    ELSE <<Head(items)>> \o SortedInsert(Tail(items), item)

\* SortedDict(params).items(): the items in ascending key order
RECURSIVE SortedDict(_)
SortedDict(params_) ==
    IF params_ = <<>> THEN <<>>
    ELSE SortedInsert(SortedDict(SubSeq(params_, 1, Len(params_) - 1)),
                      params_[Len(params_)])

\* the loop of lines 60-61 over the items still to visit
RECURSIVE AppendItems(_, _)
AppendItems(hs, items) ==
    IF items = <<>> THEN hs
    ELSE AppendItems(hs \o Head(items).key \o <<"=">>
                        \o Format(Head(items).value) \o <<"&">>,
                     Tail(items))

\* s[:-1]
DropLast(s) == SubSeq(s, 1, Len(s) - 1)

\* DropLast as a slip would have it: s[:-2]
DropLastTwo(s) == SubSeq(s, 1, Len(s) - 2)

\* HashString with the last two characters sliced off before "#"
HashStringSliceTwo(method_, params_, rand_) ==
    DropLastTwo(AppendItems(rand_ \o <<"/">> \o method_ \o <<"?">>,
                            SortedDict(params_)))
        \o <<"#">> \o SECRET

\* the string api_signature hashes, given its random draw
HashString(method_, params_, rand_) ==
    DropLast(AppendItems(rand_ \o <<"/">> \o method_ \o <<"?">>,
                         SortedDict(params_)))
        \o <<"#">> \o SECRET

\* api_signature's return value, given its random draw
Signature(method_, params_, rand_) ==
    rand_ \o hexdigest(sha512hex(HashString(method_, params_, rand_)))

----------------------------------------------------------------------------
(* Status fetcher *)

\* int(time.time()): two of the clock's readings
Timestamps == { 1700000000, 1700000001 }

\* the dict literal of lines 87-93, in insertion order
RequestParams(_handle, _from, _count, timestamp) ==
    << [key |-> <<"a","p","i","K","e","y">>, value |-> StrVal(KEY)],
       [key |-> <<"h","a","n","d","l","e">>, value |-> StrVal(_handle)],
       [key |-> <<"f","r","o","m">>,         value |-> IntVal(_from)],
       [key |-> <<"c","o","u","n","t">>,     value |-> IntVal(_count)],
       [key |-> <<"t","i","m","e">>,         value |-> IntVal(timestamp)] >>

\* the f-string of lines 95-96: the backslash and the newline that end line
\* 95 are a line continuation inside the literal and vanish; the space in
\* front of the backslash and the 12 spaces that indent line 96 stay
Url(method_, api_sig_, _handle, _from, _count, timestamp) ==
    BASE_URL \o method_
        \o <<"?","a","p","i","K","e","y","=">> \o KEY
        \o <<"&","t","i","m","e","=">> \o IntToStr(timestamp)
        \o <<" "," "," "," "," "," "," "," "," "," "," "," "," ">>
        \o <<"&","a","p","i","S","i","g","=">> \o api_sig_
        \o <<"&","h","a","n","d","l","e","=">> \o _handle
        \o <<"&","f","r","o","m","=">> \o IntToStr(_from)
        \o <<"&","c","o","u","n","t","=">> \o IntToStr(_count)

\* Submission records of a response: verdict, and a problem with a name, an
\* optional rating and a tag list
Verdicts == { "OK", "WRONG_ANSWER" }
Names == { "A", "B" }
Ratings == { 800, 1200 }
TagLists == { <<"dp">>, <<"greedy", "dp">> }
Tags == { "dp", "greedy" }

Problems ==
    [name : Names, rating : Ratings, tags : TagLists]
        \cup [name : Names, tags : TagLists]

Submissions == [verdict : Verdicts, problem : Problems]

SubmissionLists == UNION { [1..n -> Submissions] : n \in 0..MaxLen }

Comments == { "wrong apiSig" }

\* What requests.get and response.json() can yield: no response at all, a
\* body that is not JSON, or a JSON object with or without the fields read
Responses ==
    { [kind |-> "ConnectionError"], [kind |-> "Timeout"], [kind |-> "not_json"] }
        \cup { [kind |-> "json", data |-> d] :
                 d \in { [status |-> "FAILED"], [status |-> "OK"] }
                       \cup [comment : Comments]
                       \cup [status : {"FAILED"}, comment : Comments]
                       \cup [status : {"OK"}, result : SubmissionLists] }

NoResponse == [kind |-> "none"]

\* Python values of submission_list
Unassigned == [unassigned |-> TRUE]
None == [none |-> TRUE]
List(l) == [list |-> l]

\* An exception: its type, the line that raised it, and str() of it
NoExc == [type |-> "", line |-> 0, message |-> ""]
Raised(type, line, message) == [type |-> type, line |-> line, message |-> message]

\* Lines 98-104 on a response: the exception that leaves the function, what
\* it printed, and the value it returned
FetchOutcome(resp) ==
    IF resp.kind \in {"ConnectionError", "Timeout"}
    THEN [exc |-> Raised(resp.kind, 98, "request failed"), printed |-> <<>>, value |-> Unassigned]
    ELSE IF resp.kind = "not_json"
    THEN [exc |-> Raised("JSONDecodeError", 99, "Expecting value"), printed |-> <<>>,
          value |-> Unassigned]
    ELSE IF "status" \notin DOMAIN resp.data
    THEN [exc |-> Raised("KeyError", 100, "'status'"), printed |-> <<>>, value |-> Unassigned]
    ELSE IF resp.data.status = "FAILED"
    THEN IF "comment" \notin DOMAIN resp.data
         THEN [exc |-> Raised("KeyError", 102, "'comment'"), printed |-> <<>>,
               value |-> Unassigned]
         ELSE [exc |-> NoExc, printed |-> <<resp.data.comment>>, value |-> None]
    ELSE IF "result" \notin DOMAIN resp.data
    THEN [exc |-> Raised("KeyError", 104, "'result'"), printed |-> <<>>, value |-> Unassigned]
    ELSE [exc |-> NoExc, printed |-> <<>>, value |-> List(resp.data.result)]

----------------------------------------------------------------------------
(* Aggregator *)

\* lines 117-119
FilterAcceptedNoVerdict(data) ==
    SelectSeq(data, LAMBDA x : "rating" \in DOMAIN x.problem)

FilterAccepted(data) ==
    SelectSeq(data, LAMBDA x : x.verdict = "OK" /\ "rating" \in DOMAIN x.problem)

\* lines 120-127: the filter whose predicate appends to exist_name
RECURSIVE DedupFrom(_, _)
DedupFrom(data, exist_name) ==
    IF data = <<>> THEN <<>>
    ELSE IF Head(data).problem.name \notin exist_name
    THEN <<Head(data)>>
             \o DedupFrom(Tail(data), exist_name \cup {Head(data).problem.name})
    ELSE DedupFrom(Tail(data), exist_name)

\* a dedup that keeps the last record of each name
RECURSIVE DedupKeepLast(_)
DedupKeepLast(data) ==
    IF data = <<>> THEN <<>>
    ELSE IF \E i \in 2..Len(data) :
                data[i].problem.name = Head(data).problem.name
    THEN DedupKeepLast(Tail(data))
    ELSE <<Head(data)>> \o DedupKeepLast(Tail(data))

DedupByName(data) == DedupFrom(data, {})

\* sorted(data, key=rating) is stable: each record goes behind the records
\* already placed whose rating is not greater
RECURSIVE InsertByRating(_, _)
InsertByRating(placed, x) ==
    IF placed = <<>> THEN <<x>>
    ELSE IF x.problem.rating < Head(placed).problem.rating THEN <<x>> \o placed
    ELSE <<Head(placed)>> \o InsertByRating(Tail(placed), x)

\* an unstable sort: each record goes in front of its equals
RECURSIVE InsertBeforeEquals(_, _)
InsertBeforeEquals(placed, x) ==
    IF placed = <<>> THEN <<x>>
    ELSE IF x.problem.rating <= Head(placed).problem.rating THEN <<x>> \o placed
    ELSE <<Head(placed)>> \o InsertBeforeEquals(Tail(placed), x)

RECURSIVE SortedUnstable(_)
SortedUnstable(data) ==
    IF data = <<>> THEN <<>>
    ELSE InsertBeforeEquals(SortedUnstable(SubSeq(data, 1, Len(data) - 1)),
                            data[Len(data)])

\* line 128
RECURSIVE SortedByRating(_)
SortedByRating(data) ==
    IF data = <<>> THEN <<>>
    ELSE InsertByRating(SortedByRating(SubSeq(data, 1, Len(data) - 1)),
                        data[Len(data)])

\* lines 134-138 from a dict built so far
RECURSIVE CountRatings(_, _)
CountRatings(rating, data) ==
    IF data = <<>> THEN rating
    ELSE LET r == Head(data).problem.rating
         IN  CountRatings(IF r \in DOMAIN rating
                          THEN [rating EXCEPT ![r] = @ + 1]
                          ELSE rating @@ (r :> 1),
                          Tail(data))

\* a count whose increment branch stores 1 again
RECURSIVE CountRatingsNoIncrement(_, _)
CountRatingsNoIncrement(rating, data) ==
    IF data = <<>> THEN rating
    ELSE LET r == Head(data).problem.rating
         IN  CountRatingsNoIncrement(IF r \in DOMAIN rating
                                     THEN [rating EXCEPT ![r] = 1]
                                     ELSE rating @@ (r :> 1),
                                     Tail(data))

RatingCountsNoIncrement(data) == CountRatingsNoIncrement(<<>>, data)

\* lines 133-138
RatingCounts(data) == CountRatings(<<>>, data)

\* lines 144-148 for one submission's tag list
RECURSIVE CountTagList(_, _)
CountTagList(tags, taglist) ==
    IF taglist = <<>> THEN tags
    ELSE CountTagList(IF Head(taglist) \in DOMAIN tags
                      THEN [tags EXCEPT ![Head(taglist)] = @ + 1]
                      ELSE tags @@ (Head(taglist) :> 1),
                      Tail(taglist))

\* lines 143-148 from a dict built so far
RECURSIVE CountTags(_, _)
CountTags(tags, data) ==
    IF data = <<>> THEN tags
    ELSE CountTags(CountTagList(tags, Head(data).problem.tags), Tail(data))

\* a count that reads only the first tag of each submission
RECURSIVE CountFirstTags(_, _)
CountFirstTags(tags, data) ==
    IF data = <<>> THEN tags
    ELSE CountFirstTags(CountTagList(tags, SubSeq(Head(data).problem.tags, 1, 1)),
                        Tail(data))

TagCountsFirstOnly(data) == CountFirstTags(<<>>, data)

\* lines 142-148
TagCounts(data) == CountTags(<<>>, data)

\* json.dumps of a dict with int keys: a JSON object's keys are strings, so
\* each key is written as str(key)
JsonIntKeys(d) ==
    [k \in { IntToStr(r) : r \in DOMAIN d } |->
        d[CHOOSE r \in DOMAIN d : IntToStr(r) = k]]

\* The state of an artifact: not there, left by an earlier run, or written
\* by this run with the given JSON value
Absent == [state |-> "absent"]
Prior == [state |-> "prior"]
Written(json) == [state |-> "written", json |-> json]

FileNames == { "data.json", "rating.json", "tags.json" }

----------------------------------------------------------------------------
(* The process: lines 153-155 *)

Init ==
    /\ pc = "line154"
    /\ submission_list = Unassigned
    /\ exc = NoExc
    /\ stdout = <<>>
    /\ gets = <<>>
    /\ response = NoResponse
    /\ files \in { [f \in FileNames |-> Absent], [f \in FileNames |-> Prior] }
    /\ method = <<>>
    /\ params = <<>>
    /\ rand = <<>>
    /\ hash_string = <<>>
    /\ api_sig = <<>>

\* line 154: get_user_status("LKV0429", 1, 1000), lines 83-104, with the
\* clock's reading, the signer's random draw and the remote end's answer
get_user_status ==
    /\ pc = "line154"
    /\ \E timestamp \in Timestamps, r \in RandPrefixes :
         LET _handle == <<"L","K","V","0","4","2","9">>
             _from   == 1
             _count  == 1000
             m       == <<"u","s","e","r",".","s","t","a","t","u","s">>
             p       == RequestParams(_handle, _from, _count, timestamp)
             sig     == Signature(m, p, r)
             url     == Url(m, sig, _handle, _from, _count, timestamp)
         IN  /\ method' = m
             /\ params' = p
             /\ rand' = r
             /\ hash_string' = HashString(m, p, r)
             /\ api_sig' = sig
             /\ gets' = Append(gets, [url |-> url, timeout |-> 10])
    /\ \E resp \in Responses :
         LET out == FetchOutcome(resp)
         IN  /\ response' = resp
             /\ stdout' = stdout \o out.printed
             /\ IF out.exc # NoExc
                THEN /\ exc' = out.exc
                     /\ pc' = "exit1"
                     /\ UNCHANGED submission_list
                ELSE /\ submission_list' = out.value
                     /\ pc' = "line155"
                     /\ UNCHANGED exc
    /\ UNCHANGED files

\* line 155: parse_data(submission_list), lines 117-150.  filter() over None
\* raises TypeError in the statement of line 117, before any file is opened
parse_data ==
    /\ pc = "line155"
    /\ IF submission_list = None
       THEN /\ exc' = Raised("TypeError", 117,
                              "'NoneType' object is not iterable")
            /\ pc' = "exit1"
            /\ UNCHANGED files
       ELSE LET data == SortedByRating(DedupByName(
                            FilterAccepted(submission_list.list)))
            IN  /\ files' = [f \in FileNames |->
                                CASE f = "data.json" -> Written(data)
                                  [] f = "rating.json" ->
                                        Written(JsonIntKeys(RatingCounts(data)))
                                  [] f = "tags.json" -> Written(TagCounts(data))]
                /\ pc' = "exit0"
                /\ UNCHANGED exc
    /\ UNCHANGED <<submission_list, stdout, gets, response,
                   method, params, rand, hash_string, api_sig>>

Next == get_user_status \/ parse_data

Spec == Init /\ [][Next]_vars

----------------------------------------------------------------------------
(* The signer on its own, over every method and parameter mapping *)

Methods == { <<"u","s","e","r",".","s","t","a","t","u","s">>,
             <<"c","o","n","t","e","s","t",".","l","i","s","t">> }

\* keys that differ in case, and a key that is a prefix of another
Keys == { <<"f","r","o","m">>, <<"c","o","u","n","t">>,
          <<"f","r">>, <<"F","r","o","m">> }

\* an int and a str that read the same, a second digit, a longer number, and
\* a str holding the separators
Values == { IntVal(1), StrVal(<<"1">>), IntVal(2), IntVal(12),
            StrVal(<<"x","&","y","=","1">>) }

Items == [key : Keys, value : Values]

\* dicts of at most MaxParams items: the keys of a dict are distinct
ParamMappings ==
    UNION { { d \in [1..n -> Items] :
                \A i, j \in 1..n : i # j => d[i].key # d[j].key } :
            n \in 0..MaxParams }

SignInit ==
    /\ pc = "api_signature"
    /\ method \in Methods
    /\ params \in ParamMappings
    /\ rand = <<>>
    /\ hash_string = <<>>
    /\ api_sig = <<>>
    /\ submission_list = Unassigned
    /\ exc = NoExc
    /\ stdout = <<>>
    /\ gets = <<>>
    /\ response = NoResponse
    /\ files = [f \in FileNames |-> Absent]

\* api_signature(method, params), lines 55-64
api_signature ==
    /\ pc = "api_signature"
    /\ \E r \in RandPrefixes :
         /\ rand' = r
         /\ hash_string' = HashString(method, params, r)
         /\ api_sig' = Signature(method, params, r)
    /\ pc' = "signed"
    /\ UNCHANGED <<submission_list, exc, stdout, gets, response, files,
                   method, params>>

SignNext == api_signature

SignSpec == SignInit /\ [][SignNext]_vars

----------------------------------------------------------------------------
(* The aggregator on its own, over every submission list *)

ParseInit ==
    /\ pc = "line155"
    /\ submission_list \in { List(l) : l \in SubmissionLists } \cup { None }
    /\ exc = NoExc
    /\ stdout = <<>>
    /\ gets = <<>>
    /\ response = NoResponse
    /\ files \in { [f \in FileNames |-> Absent], [f \in FileNames |-> Prior] }
    /\ method = <<>>
    /\ params = <<>>
    /\ rand = <<>>
    /\ hash_string = <<>>
    /\ api_sig = <<>>

ParseNext == parse_data

ParseSpec == ParseInit /\ [][ParseNext]_vars

----------------------------------------------------------------------------
(* Properties of the aggregator *)

\* parse_data has returned
Done == pc = "exit0"

\* the list parse_data was given, and the three JSON values it wrote
Input == submission_list.list
DataJson == files["data.json"].json
RatingJson == files["rating.json"].json
TagsJson == files["tags.json"].json

\* record i of the input has verdict "OK" and a rated problem
Accepted(i) ==
    Input[i].verdict = "OK" /\ "rating" \in DOMAIN Input[i].problem

\* the accepted records that no earlier accepted record shares a name with
Kept ==
    { i \in 1..Len(Input) :
        /\ Accepted(i)
        /\ \A j \in 1..(i - 1) :
             ~(Accepted(j) /\ Input[j].problem.name = Input[i].problem.name) }

\* the input position of the kept record named n
KeptAt(n) == CHOOSE i \in Kept : Input[i].problem.name = n

\* how often t occurs in the tag list l
Occurrences(t, l) == Cardinality({ j \in 1..Len(l) : l[j] = t })

\* the sum of f[x] over the finite set S
RECURSIVE SumOver(_, _)
SumOver(f, S) ==
    IF S = {} THEN 0
    ELSE LET x == CHOOSE x \in S : TRUE IN f[x] + SumOver(f, S \ {x})

\* C1: every record of data.json has verdict "OK" and a rated problem; an
\* input record that has not is not in data.json, and every rating key and
\* every tag key of the two count files comes from a record that has
C1_OnlyAcceptedRated ==
    Done =>
        /\ \A k \in 1..Len(DataJson) :
             /\ DataJson[k].verdict = "OK"
             /\ "rating" \in DOMAIN DataJson[k].problem
        /\ \A i \in 1..Len(Input) :
             ~Accepted(i) => \A k \in 1..Len(DataJson) : DataJson[k] # Input[i]
        /\ \A key \in DOMAIN RatingJson :
             \E i \in 1..Len(Input) :
                Accepted(i) /\ IntToStr(Input[i].problem.rating) = key
        /\ \A t \in DOMAIN TagsJson :
             \E i \in 1..Len(Input) :
                Accepted(i) /\ Occurrences(t, Input[i].problem.tags) > 0

\* an accepted record is written while an "OK" record without a rating and
\* a rated record with another verdict are left out
C1_Witness ==
    /\ Done
    /\ Len(DataJson) = 1
    /\ \E i \in 1..Len(Input) :
         Input[i].verdict = "OK" /\ "rating" \notin DOMAIN Input[i].problem
    /\ \E i \in 1..Len(Input) :
         Input[i].verdict # "OK" /\ "rating" \in DOMAIN Input[i].problem

\* C2: data.json holds one record per problem name that an accepted record
\* carries, no two of its records share a name, and the record of a name is
\* the first accepted record of that name in input order
C2_FirstOfEachName ==
    Done =>
        /\ \A k, l \in 1..Len(DataJson) :
             k # l => DataJson[k].problem.name # DataJson[l].problem.name
        /\ Len(DataJson) = Cardinality(Kept)
        /\ \A k \in 1..Len(DataJson) :
             /\ \E i \in Kept : Input[i].problem.name = DataJson[k].problem.name
             /\ DataJson[k] = Input[KeptAt(DataJson[k].problem.name)]

\* a name occurs three times: first rejected, then accepted twice with
\* different ratings
C2_Witness ==
    /\ Done
    /\ Len(Input) = 3
    /\ \A i \in 1..3 : Input[i].problem.name = "A"
    /\ ~Accepted(1) /\ Accepted(2) /\ Accepted(3)
    /\ Input[2].problem.rating # Input[3].problem.rating
    /\ Len(DataJson) = 1

\* C3: data.json is the kept records in ascending order of rating, and two
\* records of equal rating stand in their input order
C3_StableAscending ==
    Done =>
        /\ Len(DataJson) = Cardinality(Kept)
        /\ \A i \in Kept : \E k \in 1..Len(DataJson) : DataJson[k] = Input[i]
        /\ \A k, l \in 1..Len(DataJson) :
             k < l =>
                /\ DataJson[k].problem.rating <= DataJson[l].problem.rating
                /\ DataJson[k].problem.rating = DataJson[l].problem.rating
                     => \E i, j \in Kept :
                          /\ i < j
                          /\ Input[i] = DataJson[k]
                          /\ Input[j] = DataJson[l]

\* two kept records of equal rating, a record between them left out, stay
\* in input order
C3_Witness ==
    /\ Done
    /\ Len(Input) = 3
    /\ Len(DataJson) = 2
    /\ DataJson[1] = Input[1]
    /\ DataJson[2] = Input[3]
    /\ DataJson[1].problem.rating = DataJson[2].problem.rating

\* a kept record of lower rating moves in front of an earlier one
C3_WitnessReorder ==
    /\ Done
    /\ Len(DataJson) = 2
    /\ DataJson[1] = Input[Len(Input)]
    /\ DataJson[1].problem.rating < DataJson[2].problem.rating

\* C4: rating.json has a key for a rating exactly when a kept record has
\* that rating, its value is the number of such records, and the values sum
\* to the length of data.json
C4_RatingCounts ==
    Done =>
        /\ \A r \in Ratings :
             LET n == Cardinality({ i \in Kept : Input[i].problem.rating = r })
             IN  /\ IntToStr(r) \in DOMAIN RatingJson <=> n > 0
                 /\ n > 0 => RatingJson[IntToStr(r)] = n
        /\ DOMAIN RatingJson \subseteq { IntToStr(r) : r \in Ratings }
        /\ SumOver(RatingJson, DOMAIN RatingJson) = Len(DataJson)

\* two kept records share a rating, and a third record that has another
\* rating is left out
C4_Witness ==
    /\ Done
    /\ Len(Input) = 3
    /\ \E i \in 1..3 :
         "rating" \in DOMAIN Input[i].problem
            /\ IntToStr(Input[i].problem.rating) \notin DOMAIN RatingJson
    /\ \E key \in DOMAIN RatingJson : RatingJson[key] = 2

\* C5: tags.json has a key for a tag exactly when the tag occurs in the tag
\* list of a kept record, and its value is the number of occurrences of the
\* tag over the tag lists of the kept records
C5_TagCounts ==
    Done =>
        \A t \in Tags \cup DOMAIN TagsJson :
            LET n == SumOver([i \in Kept |->
                                 Occurrences(t, Input[i].problem.tags)], Kept)
            IN  /\ t \in DOMAIN TagsJson <=> n > 0
                /\ n > 0 => TagsJson[t] = n

\* a kept record with two tags counts under both, while a rejected record
\* and a later record of the same name count under none
C5_Witness ==
    /\ Done
    /\ Len(Input) = 3
    /\ Kept = {1}
    /\ Accepted(3)
    /\ Len(Input[1].problem.tags) = 2
    /\ Len(Input[2].problem.tags) = 2
    /\ TagsJson["dp"] = 1
    /\ TagsJson["greedy"] = 1

----------------------------------------------------------------------------
(* Properties of the fetcher and of the run *)

\* get_user_status has been left, by return or by exception
Fetched == pc # "line154"

\* the remote end answered {status: "FAILED", comment: ...}
ApiFailed ==
    /\ response.kind = "json"
    /\ "status" \in DOMAIN response.data
    /\ response.data.status = "FAILED"
    /\ "comment" \in DOMAIN response.data

\* the remote end answered {status: "OK", result: [...]}
ApiOk ==
    /\ response.kind = "json"
    /\ "status" \in DOMAIN response.data
    /\ response.data.status = "OK"
    /\ "result" \in DOMAIN response.data

\* no answer came (connection, timeout)
TransportFailed == response.kind \in {"ConnectionError", "Timeout"}

\* the answer is not JSON or lacks a field the fetcher reads
Malformed ==
    \/ response.kind = "not_json"
    \/ /\ response.kind = "json"
       /\ \/ "status" \notin DOMAIN response.data
          \/ response.data.status = "FAILED" /\ "comment" \notin DOMAIN response.data
          \/ response.data.status # "FAILED" /\ "result" \notin DOMAIN response.data

FetchFailed == ApiFailed \/ TransportFailed \/ Malformed

\* a statement of parse_data has run
AggregationEntered == pc = "exit0" \/ exc.line \in 117..150

\* C6: when the fetch fails, no statement of the aggregation runs and none
\* of the three files is written
C6_FetchFailureSkipsAggregation ==
    (Fetched /\ FetchFailed) =>
        /\ ~AggregationEntered
        /\ \A f \in FileNames : files[f].state # "written"

\* the part of C6 about the files alone: a failed fetch leaves every file
\* as it was
FetchFailureWritesNoFile ==
    (Fetched /\ FetchFailed) =>
        \A f \in FileNames : files[f].state # "written"

\* what a caller of get_user_status has in hand for a response: the
\* exception that reached it and the value returned to it
CallerSees(resp) ==
    [exc |-> FetchOutcome(resp).exc, value |-> FetchOutcome(resp).value]

\* C7: status "OK" returns the result array; status "FAILED" is signalled
\* to the caller by a failure (an exception or an error value) whose
\* message is the comment, and what the caller then has in hand differs
\* from what it has after a transport failure or a malformed response
C7_FailureCarriesComment ==
    /\ (Fetched /\ ApiOk) =>
          exc.line \notin 83..104 /\ submission_list = List(response.data.result)
    /\ (Fetched /\ ApiFailed) =>
          /\ \/ exc.line \in 83..104 /\ exc.message = response.data.comment
             \/ /\ "message" \in DOMAIN submission_list
                /\ submission_list.message = response.data.comment
          /\ \A resp \in Responses :
                (resp.kind # "json" \/ CallerSees(resp).exc # NoExc)
                    => CallerSees(resp) # CallerSees(response)

\* the parts of C7 the code keeps: "OK" returns the result array, and
\* "FAILED" comes back as a return without exception, which no transport
\* failure and no malformed response does
OkReturnsResultFailedReturns ==
    /\ (Fetched /\ ApiOk) =>
          exc.line \notin 83..104 /\ submission_list = List(response.data.result)
    /\ (Fetched /\ ApiFailed) =>
          /\ exc.line \notin 83..104
          /\ submission_list = None
          /\ stdout = <<response.data.comment>>
    /\ (Fetched /\ (TransportFailed \/ Malformed)) =>
          exc.line \in 98..104 /\ submission_list = Unassigned

\* the value the signed mapping holds under a key
Signed(key) == params[CHOOSE i \in 1..Len(params) : params[i].key = key].value

\* the URL of section 6, with the values that were signed
ExpectedUrl ==
    BASE_URL \o <<"u","s","e","r",".","s","t","a","t","u","s">>
        \o <<"?","a","p","i","K","e","y","=">>
        \o Format(Signed(<<"a","p","i","K","e","y">>))
        \o <<"&","t","i","m","e","=">> \o Format(Signed(<<"t","i","m","e">>))
        \o <<"&","a","p","i","S","i","g","=">> \o api_sig
        \o <<"&","h","a","n","d","l","e","=">>
        \o Format(Signed(<<"h","a","n","d","l","e">>))
        \o <<"&","f","r","o","m","=">> \o Format(Signed(<<"f","r","o","m">>))
        \o <<"&","c","o","u","n","t","=">>
        \o Format(Signed(<<"c","o","u","n","t">>))

Whitespace == { " ", "\t", "\n", "\r" }

\* C10: one GET per call, to exactly the URL of section 6 with the signed
\* values, and no whitespace in it
C10_OneGetToCleanUrl ==
    Fetched =>
        /\ Len(gets) = 1
        /\ gets[1].url = ExpectedUrl
        /\ \A i \in 1..Len(gets[1].url) : gets[1].url[i] \notin Whitespace

\* the part of C10 the code keeps: one GET per call, no retry
OneGetPerCall == Fetched => Len(gets) = 1

----------------------------------------------------------------------------
(* Properties of the signer *)

Signed_ == pc = "signed"

\* the keys of the mapping
KeySet == { params[i].key : i \in 1..Len(params) }

\* the least of a set of keys
MinKey(S) == CHOOSE k \in S : \A o \in S \ {k} : StrLess(k, o)

\* key=value for the keys of S in ascending order, "&" between them
RECURSIVE Joined(_)
Joined(S) ==
    IF S = {} THEN <<>>
    ELSE LET k == MinKey(S)
         IN  k \o <<"=">> \o Format(Signed(k))
               \o (IF S \ {k} = {} THEN <<>> ELSE <<"&">> \o Joined(S \ {k}))

\* the canonical string of section 4.1
Canonical == rand \o <<"/">> \o method \o <<"?">> \o Joined(KeySet)
                  \o <<"#">> \o SECRET

\* C8: the hashed string is prefix "/" method "?" key=value joined by "&" in
\* ascending key order "#" secret, for every mapping, the empty one
\* included, and the signature is the prefix and the digest of that string
C8_CanonicalString ==
    Signed_ =>
        /\ hash_string = Canonical
        /\ api_sig = rand \o hexdigest(sha512hex(Canonical))

\* C8 for the mappings that hold a parameter
CanonicalWhenNonEmpty ==
    (Signed_ /\ params # <<>>) =>
        /\ hash_string = Canonical
        /\ api_sig = rand \o hexdigest(sha512hex(Canonical))

\* the mapping with the value of its i-th parameter changed to v
WithValue(i, v) == [params EXCEPT ![i].value = v]

\* C9, for any other value: the same prefix and inputs give the same
\* signature, and a parameter changed to any other value gives another
C9_AnyOtherValue ==
    Signed_ =>
        /\ Signature(method, params, rand) = api_sig
        /\ \A i \in 1..Len(params), v \in Values :
             v # params[i].value
                => Signature(method, WithValue(i, v), rand) # api_sig

\* C9, for any other rendering: the same prefix and inputs give the same
\* signature, and a parameter changed to a value that str() renders
\* differently gives another
C9_OtherRendering ==
    Signed_ =>
        /\ Signature(method, params, rand) = api_sig
        /\ \A i \in 1..Len(params), v \in Values :
             Format(v) # Format(params[i].value)
                => Signature(method, WithValue(i, v), rand) # api_sig

\* a mapping of two parameters is signed, its last in key order holding 1
C9_Witness ==
    /\ Signed_
    /\ Len(params) = 2
    /\ \E i \in 1..2 :
         /\ params[i].key = <<"f","r","o","m">>
         /\ params[i].value = IntVal(1)
    /\ \E i \in 1..2 : params[i].key = <<"c","o","u","n","t">>

====
